---- MODULE Spec2Model ----
(***************************************************************************)
(* State-machine model of ffio.FFIO (src/ffio/ffio.py): one session object *)
(* wrapping one engine object (struct FFIO of the C library) that is       *)
(* allocated, opened, used for per-frame calls and released.               *)
(*                                                                         *)
(* Python strings are modelled as tuples of one-character strings, Python  *)
(* Optional values as tuples of length at most one (None is <<>>), and     *)
(* Python bool values that are compared with ints as the ints 1 and 0.     *)
(***************************************************************************)
EXTENDS Integers, Sequences, FiniteSets, TLC

VARIABLES
  pc,                 \* "new", "error" (ValueError raised), "live", "released", "crashed"
  platform,           \* platform.system() of the host
  args,               \* the arguments of the constructor call, <<>> before it
  error,              \* which ValueError the constructor raised, "none" otherwise
  target_url,         \* Optional[str]
  mode,               \* FFIOMode member name
  hw_enabled,
  hw_device,          \* instance attribute, falling back on the class attribute
  pix_fmt_hw_enabled,
  shm_enabled,
  codec_params,       \* Optional[CCodecParams]
  frame_seq_py,
  width, height, framerate,
  c_ffio_ptr,         \* Optional[POINTER(CFFIO)]: <<>> or <<"h">>
  c_ffio,             \* the memory of the engine object the pointer designates
  c_alloc,            \* "none", "alive", "freed": allocation status of that memory
  c_init,             \* the engine object as api_initFFIO left it
  init_args,          \* the arguments api_initFFIO received
  calls,              \* allocate/open/finalize/delete entry points invoked, in order
  uaf,                \* some call or read went through the pointer after the delete
  last_call           \* the last per-frame call: engine outcome and returned value

vars == << pc, platform, args, error, target_url, mode, hw_enabled, hw_device,
           pix_fmt_hw_enabled, shm_enabled, codec_params, frame_seq_py,
           width, height, framerate, c_ffio_ptr, c_ffio, c_alloc, c_init,
           init_args, calls, uaf, last_call >>

\* ---------------------------------------------------------------- bounds
MaxFrames    == 2     \* cap on the number of counted frames
MaxStateCode == 2     \* the engine's state codes are 0..MaxStateCode
MaxGeom      == 1     \* the engine reports one of the geometries 0..MaxGeom

StateCodes == 0..MaxStateCode
Geoms      == 0..MaxGeom

None    == << >>
Some(x) == << x >>

\* ---------------------------------------------------------------- strings
Str_rtmp    == << "r","t","m","p",":","/","/" >>
Str_rtsp    == << "r","t","s","p",":","/","/" >>
Str_srt     == << "s","r","t",":","/","/" >>
Str_cuda    == << "c","u","d","a" >>
Str_cuda0   == << "c","u","d","a",":","0" >>
Str_vtb     == << "v","t","b" >>          \* stands for "videotoolbox"
Str_encode  == << "e","n","c","o","d","e" >>
Str_encoder == << "e","n","c","o","d","e","r" >>
Str_decode  == << "d","e","c","o","d","e" >>
Str_decoder == << "d","e","c","o","d","e","r" >>

Digits == { "0","1","2","3","4","5","6","7","8","9" }

\* str.lower() on the letters the model uses
Lower(c) ==
  CASE c = "A" -> "a" [] c = "C" -> "c" [] c = "D" -> "d" [] c = "E" -> "e"
    [] c = "N" -> "n" [] c = "O" -> "o" [] c = "R" -> "r" [] c = "U" -> "u"
    [] OTHER -> c

StrLower(s) == [ i \in 1..Len(s) |-> Lower(s[i]) ]

\* str.startswith
StartsWith(s, p) == Len(s) >= Len(p) /\ SubSeq(s, 1, Len(p)) = p

\* re.compile('^cuda:\d{1,2}$').search(s): without re.MULTILINE `^` matches
\* at the start only and `$` at the end or just before a final newline.
CudaPatternSearch(s) ==
  \E n \in 1..2 :
    /\ Len(s) >= 5 + n
    /\ SubSeq(s, 1, 5) = << "c","u","d","a",":" >>
    /\ \A i \in 6..(5 + n) : s[i] \in Digits
    /\ \/ Len(s) = 5 + n
       \/ Len(s) = 5 + n + 1 /\ s[5 + n + 1] = "\n"

\* ---------------------------------------------------------------- values
\* A Python value held by a field of the parameter object.
IntV(n)   == [ t |-> "int",   n |-> n, b |-> << >> ]
BoolV(x)  == [ t |-> "bool",  n |-> IF x THEN 1 ELSE 0, b |-> << >> ]
BytesV(s) == [ t |-> "bytes", n |-> 0, b |-> s ]

\* Python ==: bool is a subclass of int, bytes never equals a number
PyEq(x, y) ==
  IF x.t = "bytes" \/ y.t = "bytes"
    THEN x.t = y.t /\ x.b = y.b
    ELSE x.n = y.n

\* Python `x in lst`
PyIn(x, lst) == \E i \in 1..Len(lst) : PyEq(x, lst[i])

\* bool(x)
Truthy(n) == n # 0

\* FFIOPTSTrick members
FFIO_PTS_TRICK_EVEN     == 0
FFIO_PTS_TRICK_INCREASE == 1

\* The public fields of CCodecParams, as dir() lists them.
CodecParamNames == { "bitrate", "flags", "flags2", "profile", "pts_trick", "sei_uuid" }

\* CCodecParams(): the parameter object a session builds for itself
CCodecParams ==
  [ bitrate   |-> IntV(0),
    flags     |-> IntV(0),
    flags2    |-> IntV(0),
    profile   |-> BytesV(<< >>),
    pts_trick |-> IntV(-1),
    sei_uuid  |-> BytesV(<< >>) ]

\* ---------------------------------------------------------------- engine
\* struct FFIO as the binding reads it; geometry g stands for one reported
\* triple of width, height and framerate (0: nothing reported).
EngineObject(st, g, seq) ==
  [ ffio_state   |-> st,
    image_width  |-> 16 * g,
    image_height |-> 9 * g,
    framerate    |-> 25 * g,
    frame_seq    |-> seq ]

\* api_newFFIO(): a fresh engine object
NewEngineObject == EngineObject(0, 0, 0)

\* What a read through the dangling pointer can find after api_deleteFFIO:
\* the stale object, or the object with its state word overwritten.
FreedContents(obj) == { [ obj EXCEPT !.ffio_state = s ] : s \in StateCodes }

\* ---------------------------------------------------------------- __init__
EnumMode(m) == [ isStr |-> FALSE, enum |-> m, str |-> << >> ]
StrMode(s)  == [ isStr |-> TRUE,  enum |-> "DECODE", str |-> s ]

\* lines 48-56: the FFIOMode member, or "invalid" where the code raises
ResolveMode(m) ==
  IF m.isStr
    THEN IF StrLower(m.str) \in { Str_encoder, Str_encode } THEN "ENCODE"
         ELSE IF StrLower(m.str) \in { Str_decoder, Str_decode } THEN "DECODE"
         ELSE "invalid"
    ELSE m.enum

\* line 64: the list the constructor tests every checked field against
AllowedParamValues_strict ==
  << IntV(0), BytesV(<< >>), BoolV(FALSE) >>

AllowedParamValues ==
  << IntV(0), IntV(-1), BytesV(<< >>), BoolV(TRUE), BoolV(FALSE) >>

\* lines 59-62: the names that are checked
CheckedParamNames == CodecParamNames \ { "flags", "flags2", "sei_uuid" }

\* lines 58-65: TRUE where the constructor raises for the parameter object
DecodeParamsRejected(m, cp) ==
  /\ m = "DECODE"
  /\ cp # None
  /\ \E name \in CheckedParamNames : ~ PyIn(cp[1][name], AllowedParamValues)

\* line 38: the class attribute
DefaultHwDevice(p) == IF p # "Darwin" THEN Str_cuda ELSE Str_vtb

\* lines 69-78: the device the session stores, or << "!" >> where the code raises
HwDeviceInvalid == << "!" >>

ResolveHwDevice(dev, default) ==
  IF Len(dev) > 0
    THEN IF StrLower(dev) = Str_cuda THEN Str_cuda0
         ELSE IF CudaPatternSearch(dev) THEN dev
         ELSE HwDeviceInvalid
    ELSE default

\* lines 48-78: the first ValueError the constructor raises, "none" if none
ValidationError(a, default) ==
  IF ResolveMode(a.mode) = "invalid" THEN "mode"
  ELSE IF DecodeParamsRejected(ResolveMode(a.mode), a.codec_params) THEN "codec_params"
  ELSE IF ResolveHwDevice(a.hw_device, default) = HwDeviceInvalid THEN "hw_device"
  ELSE "none"

\* lines 270-277: the parameter object after _auto_set_pts_trick
AutoSetPtsTrick_nosrt(cp, url) ==
  IF cp.pts_trick.n = -1
    THEN IF StartsWith(url, Str_rtmp) \/ StartsWith(url, Str_rtsp)
           THEN [ cp EXCEPT !.pts_trick = IntV(FFIO_PTS_TRICK_EVEN) ]
           ELSE [ cp EXCEPT !.pts_trick = IntV(FFIO_PTS_TRICK_INCREASE) ]
    ELSE cp

AutoSetPtsTrick(cp, url) ==
  IF cp.pts_trick.n = -1
    THEN IF StartsWith(url, Str_rtmp) \/ StartsWith(url, Str_rtsp)
            \/ StartsWith(url, Str_srt)
           THEN [ cp EXCEPT !.pts_trick = IntV(FFIO_PTS_TRICK_EVEN) ]
           ELSE [ cp EXCEPT !.pts_trick = IntV(FFIO_PTS_TRICK_INCREASE) ]
    ELSE cp

NoCall == [ op |-> "none", called |-> FALSE, ok |-> FALSE, ret |-> 0 ]

\* The constructor raising a ValueError: lines 54, 65 and 76 all come before
\* the first engine call of line 84.
Raise_afterAlloc(a, err) ==
  /\ pc' = "error"
  /\ error' = err
  /\ args' = Some(a)
  /\ calls' = << "new" >>
  /\ c_alloc' = "alive"
  /\ c_ffio' = NewEngineObject
  /\ UNCHANGED << platform, target_url, mode, hw_enabled, hw_device,
                  pix_fmt_hw_enabled, shm_enabled, codec_params, frame_seq_py,
                  width, height, framerate, c_ffio_ptr, c_init,
                  init_args, uaf, last_call >>

Raise(a, err) ==
  /\ pc' = "error"
  /\ error' = err
  /\ args' = Some(a)
  /\ UNCHANGED << platform, target_url, mode, hw_enabled, hw_device,
                  pix_fmt_hw_enabled, shm_enabled, codec_params, frame_seq_py,
                  width, height, framerate, c_ffio_ptr, c_ffio, c_alloc, c_init,
                  init_args, calls, uaf, last_call >>

\* line 119: the test the constructor applies to the state code it reads back
InitSucceeded(st) == st = 1

\* lines 67-134 on the path without a ValueError; the engine leaves the
\* object in state st with geometry g
Open(a, st, g) ==
  LET m   == ResolveMode(a.mode)
      cp  == AutoSetPtsTrick(IF a.codec_params # None THEN a.codec_params[1]
                                                        ELSE CCodecParams,
                             a.target_url)
      dev == ResolveHwDevice(a.hw_device, hw_device)
      obj == EngineObject(st, g, 0)
  IN
  /\ pc' = "live"
  /\ error' = "none"
  /\ args' = Some(a)
  /\ target_url' = Some(a.target_url)
  /\ mode' = m
  /\ hw_enabled' = a.hw_enabled
  /\ hw_device' = dev
  /\ pix_fmt_hw_enabled' = a.pix_fmt_hw_enabled
  /\ frame_seq_py' = 0
  /\ codec_params' = Some(cp)
  /\ c_ffio_ptr' = Some("h")
  /\ shm_enabled' = (a.shm_name # None)
  /\ init_args' = Some(
       [ int_mode           |-> IF m = "DECODE" THEN 0 ELSE 1,
         target_url         |-> a.target_url,
         hw_enabled         |-> a.hw_enabled,
         pix_fmt_hw_enabled |-> IF a.pix_fmt_hw_enabled /\ ~ a.hw_enabled
                                  THEN FALSE ELSE a.pix_fmt_hw_enabled,
         hw_device          |-> dev,
         shm_enabled        |-> (a.shm_name # None),
         shm_name           |-> IF a.shm_name = None THEN << >> ELSE a.shm_name[1],
         shm_size           |-> IF a.shm_name = None THEN 0 ELSE a.shm_size,
         shm_offset         |-> IF a.shm_name = None THEN 0 ELSE a.shm_offset,
         codec_params       |-> cp ])
  /\ c_init' = obj
  /\ IF InitSucceeded(st)
       THEN /\ calls' = << "new", "init" >>
            /\ c_alloc' = "alive"
            /\ c_ffio' = obj
            /\ width' = obj.image_width
            /\ height' = obj.image_height
            /\ framerate' = obj.framerate
       ELSE /\ calls' = << "new", "init", "delete" >>
            /\ c_alloc' = "freed"
            /\ c_ffio' \in FreedContents(obj)
            /\ width' = 0
            /\ height' = 0
            /\ framerate' = 0
  /\ UNCHANGED << platform, uaf, last_call >>

\* FFIO.__init__ called with the arguments a
Construct(a) ==
  /\ pc = "new"
  /\ LET err == ValidationError(a, hw_device)
     IN IF err # "none"
          THEN Raise(a, err)
          ELSE \E st \in StateCodes, g \in Geoms : Open(a, st, g)

\* ---------------------------------------------------------------- queries
\* lines 148-152, __bool__: reads the state code through the pointer
Bool == c_ffio.ffio_state = 1 \/ c_ffio.ffio_state = 2

PyBool(x) == IF x THEN 1 ELSE 0

\* lines 154-156: the ffio_state property
ffio_state == PyBool(Bool)

\* lines 158-160: the fps property
fps == framerate

\* lines 162-164: the frame_seq_c property
frame_seq_c == c_ffio.frame_seq

\* __repr__ / bool(session) / session.ffio_state evaluated by the caller
Repr ==
  /\ pc = "live"
  /\ last_call' = [ op |-> "__bool__", called |-> FALSE, ok |-> FALSE,
                    ret |-> ffio_state ]
  /\ uaf' = (uaf \/ c_alloc = "freed")
  /\ IF c_alloc = "freed"
       THEN c_ffio' \in FreedContents(c_ffio)
       ELSE c_ffio' = c_ffio
  /\ UNCHANGED << pc, platform, args, error, target_url, mode, hw_enabled,
                  hw_device, pix_fmt_hw_enabled, shm_enabled, codec_params,
                  frame_seq_py, width, height, framerate, c_ffio_ptr, c_alloc,
                  c_init, init_args, calls >>

\* ---------------------------------------------------------------- per-frame calls
\* The engine works on one frame: on a live object it may move to state s
\* and geometry g and counts the frame when it succeeded.
EngineFrame(ok, s, g) ==
  IF c_alloc = "alive"
    THEN c_ffio' = EngineObject(s, g, IF ok THEN c_ffio.frame_seq + 1
                                            ELSE c_ffio.frame_seq)
    ELSE c_ffio' \in FreedContents(c_ffio)

\* what api_encodeOneFrame returns: 0 when the frame was submitted, e otherwise
ApiEncodeOneFrameRet(ok, e) == IF ok THEN 0 ELSE e

\* what api_encodeOneFrameFromShm returns: a C bool
ApiEncodeOneFrameFromShmRet(ok) == IF ok THEN 1 ELSE 0

\* lines 188 and 201: `if ret.contents`
DecodeCounts_always(truthy) == TRUE

DecodeCounts(truthy) == truthy

\* line 230: `if ret == 0`
EncodeCounts(ret) == ret = 0

\* line 254: `if ret`
EncodeFromShmCounts_zero(ret) == ret = 0

EncodeFromShmCounts(ret) == Truthy(ret)

\* a per-frame call that went to the engine
FrameCall(op, ok, counted, ret, s, g) ==
  /\ pc = "live"
  /\ frame_seq_py < MaxFrames
  /\ EngineFrame(ok, s, g)
  /\ frame_seq_py' = IF counted THEN frame_seq_py + 1 ELSE frame_seq_py
  /\ last_call' = [ op |-> op, called |-> TRUE, ok |-> ok, ret |-> ret ]
  /\ uaf' = (uaf \/ c_alloc = "freed")
  /\ UNCHANGED << pc, platform, args, error, target_url, mode, hw_enabled,
                  hw_device, pix_fmt_hw_enabled, shm_enabled, codec_params,
                  width, height, framerate, c_ffio_ptr, c_alloc,
                  c_init, init_args, calls >>

\* lines 186-191
DecodeOneFrame ==
  \E ok \in BOOLEAN, s \in StateCodes, g \in Geoms :
    FrameCall("decode_one_frame", ok, DecodeCounts(ok), PyBool(ok), s, g)

\* lines 198-203
DecodeOneFrameToShm ==
  \E ok \in BOOLEAN, s \in StateCodes, g \in Geoms :
    FrameCall("decode_one_frame_to_shm", ok, DecodeCounts(ok), PyBool(ok), s, g)

ImageTypes == { "bytes", "ndarray", "Image", "str" }

\* lines 224-242
EncodeOneFrame ==
  \E ty \in ImageTypes :
    IF ty \in { "bytes", "ndarray" }
      THEN \E ok \in BOOLEAN, e \in { -1, 1 }, s \in StateCodes, g \in Geoms :
             LET ret == ApiEncodeOneFrameRet(ok, e)
             IN FrameCall("encode_one_frame", ok, EncodeCounts(ret),
                          PyBool(EncodeCounts(ret)), s, g)
      ELSE /\ pc = "live"
           /\ frame_seq_py < MaxFrames
           /\ last_call' = [ op |-> "encode_one_frame", called |-> FALSE,
                             ok |-> FALSE, ret |-> 0 ]
           /\ UNCHANGED << pc, platform, args, error, target_url, mode,
                           hw_enabled, hw_device, pix_fmt_hw_enabled,
                           shm_enabled, codec_params, frame_seq_py, width,
                           height, framerate, c_ffio_ptr, c_ffio, c_alloc,
                           c_init, init_args, calls, uaf >>

\* lines 250-257
EncodeOneFrameFromShm ==
  \E ok \in BOOLEAN, s \in StateCodes, g \in Geoms :
    LET ret == ApiEncodeOneFrameFromShmRet(ok)
    IN FrameCall("encode_one_frame_from_shm", ok, EncodeFromShmCounts(ret),
                 ret, s, g)

\* ---------------------------------------------------------------- release
\* lines 260-261: the engine entry points release_memory invokes, in order
ReleaseCalls_swapped == << "delete", "finalize" >>

ReleaseCalls == << "finalize", "delete" >>

\* lines 259-268.  On a handle the constructor already deleted the two
\* calls free the object a second time: the call returns or the process
\* aborts.
ReleaseMemory ==
  /\ pc = "live"
  /\ calls' = calls \o ReleaseCalls
  /\ uaf' = (uaf \/ c_alloc = "freed")
  /\ c_alloc' = "freed"
  /\ c_ffio' \in FreedContents(c_ffio)
  /\ \/ /\ pc' = "released"
        /\ target_url' = None
        /\ c_ffio_ptr' = None
        /\ codec_params' = None
        /\ width' = 0
        /\ height' = 0
        /\ frame_seq_py' = 0
        /\ UNCHANGED framerate
     \/ /\ c_alloc = "freed"
        /\ pc' = "crashed"
        /\ UNCHANGED << target_url, c_ffio_ptr, codec_params, width, height,
                        frame_seq_py, framerate >>
  /\ UNCHANGED << platform, args, error, mode, hw_enabled, hw_device,
                  pix_fmt_hw_enabled, shm_enabled, c_init, init_args,
                  last_call >>

\* ---------------------------------------------------------------- inputs
Str_file   == << "f" >>
Str_rtmpX  == Str_rtmp \o << "x" >>
Str_rtspX  == Str_rtsp \o << "x" >>
Str_srtX   == Str_srt \o << "x" >>
Str_srtOne == << "s","r","t",":","/" >>

CtorUrls == { Str_rtmpX, Str_rtspX, Str_srtX, Str_file, Str_srtOne }

CtorModes ==
  { EnumMode("DECODE"), EnumMode("ENCODE"),
    StrMode(<< "D","e","c","o","d","e" >>),
    StrMode(<< "E","N","C","O","D","E","R" >>),
    StrMode(<< "c","o","d","e" >>) }

CtorDevices ==
  { << >>, Str_cuda, << "C","u","D","A" >>, Str_cuda0,
    << "c","u","d","a",":","1","2" >>,
    << "c","u","d","a",":","1","2","3" >>,
    << "c","u","d","a",":","0","\n" >>,
    << "C","U","D","A",":","0" >>,
    << "c","u","d" >> }

CtorParams ==
  { None,
    Some(CCodecParams),
    Some([ CCodecParams EXCEPT !.bitrate = IntV(1) ]),
    Some([ CCodecParams EXCEPT !.bitrate = IntV(-1) ]),
    Some([ CCodecParams EXCEPT !.bitrate = IntV(500) ]),
    Some([ CCodecParams EXCEPT !.profile = BytesV(<< "h" >>) ]),
    Some([ CCodecParams EXCEPT !.flags = IntV(7), !.flags2 = IntV(7),
                               !.sei_uuid = BytesV(<< "u" >>) ]),
    Some([ CCodecParams EXCEPT !.pts_trick = IntV(FFIO_PTS_TRICK_EVEN) ]),
    Some([ CCodecParams EXCEPT !.pts_trick = IntV(FFIO_PTS_TRICK_INCREASE) ]),
    Some([ CCodecParams EXCEPT !.pts_trick = IntV(3) ]) }

Args(urls, modes, hws, devices, shms, params) ==
  { [ target_url         |-> u,
      mode               |-> m,
      hw_enabled         |-> hw[1],
      pix_fmt_hw_enabled |-> hw[2],
      hw_device          |-> d,
      shm_name           |-> sh,
      shm_size           |-> 1,
      shm_offset         |-> 0,
      codec_params       |-> cp ] :
    u \in urls, m \in modes, hw \in hws, d \in devices, sh \in shms,
    cp \in params }

\* the constructor calls of the specification of the constructor
CtorArgs ==
  Args(CtorUrls, CtorModes, { << FALSE, FALSE >> }, CtorDevices, { None },
       CtorParams)

\* the constructor calls of the specification of the session's life
SessionArgs ==
  Args({ Str_file }, { EnumMode("DECODE"), EnumMode("ENCODE") },
       { << FALSE, TRUE >> }, { << >> }, { None, Some(<< "m" >>) }, { None })

\* ---------------------------------------------------------------- specifications
Init ==
  /\ pc = "new"
  /\ platform \in { "Linux", "Darwin" }
  /\ args = None
  /\ error = "none"
  /\ target_url = None
  /\ mode = "DECODE"
  /\ hw_enabled = FALSE
  /\ hw_device = DefaultHwDevice(platform)
  /\ pix_fmt_hw_enabled = FALSE
  /\ shm_enabled = FALSE
  /\ codec_params = None
  /\ frame_seq_py = 0
  /\ width = 0
  /\ height = 0
  /\ framerate = 0
  /\ c_ffio_ptr = None
  /\ c_ffio = NewEngineObject
  /\ c_alloc = "none"
  /\ c_init = NewEngineObject
  /\ init_args = None
  /\ calls = << >>
  /\ uaf = FALSE
  /\ last_call = NoCall

ConstructSession == \E a \in SessionArgs : Construct(a)

ConstructAny == \E a \in CtorArgs : Construct(a)

Next ==
  \/ ConstructSession
  \/ Repr
  \/ DecodeOneFrame
  \/ DecodeOneFrameToShm
  \/ EncodeOneFrame
  \/ EncodeOneFrameFromShm
  \/ ReleaseMemory

Spec == Init /\ [][Next]_vars

NextCtor == ConstructAny

SpecCtor == Init /\ [][NextCtor]_vars

\* ================================================================ claims
CtorCalled == pc # "new"
CallArgs   == args[1]

DeleteCount == Cardinality({ i \in 1..Len(calls) : calls[i] = "delete" })

\* ---------------------------------------------------------------- C1
\* the parameter object of a Decode construction holds, in a field other
\* than flags, flags2 and sei_uuid, a value that differs from the default
DecodeWithNonDefaultParams ==
  /\ CtorCalled
  /\ ResolveMode(CallArgs.mode) = "DECODE"
  /\ CallArgs.codec_params # None
  /\ \E name \in { "bitrate", "profile", "pts_trick" } :
       CallArgs.codec_params[1][name] # CCodecParams[name]

\* a value that equals none of 0, -1, 1 (True), empty bytes
OutsideAccepted(v) ==
  IF v.t = "bytes" THEN v.b # << >> ELSE v.n \notin { 0, -1, 1 }

\* C1 as stated: a Decode construction whose parameter object differs from
\* the default in any field other than the three don't-care fields fails
\* with a validation error, for every such value, 1 and -1 included.
C1_AnyNonDefaultFails ==
  DecodeWithNonDefaultParams => pc = "error"

\* C1 amended: a Decode construction with a parameter object fails with the
\* parameter validation error exactly when some field other than flags,
\* flags2 and sei_uuid holds a value that equals none of 0, -1, 1 and empty
\* bytes; the values 1 and -1 are accepted in every field.
C1_FailsOutsideAcceptedValues ==
  ( /\ CtorCalled
    /\ ResolveMode(CallArgs.mode) = "DECODE"
    /\ CallArgs.codec_params # None )
  => ( ( \E name \in { "bitrate", "profile", "pts_trick" } :
           OutsideAccepted(CallArgs.codec_params[1][name]) )
       <=> ( pc = "error" /\ error = "codec_params" ) )

C1_Witness ==
  /\ pc = "error"
  /\ error = "codec_params"
  /\ CallArgs.codec_params[1].bitrate = IntV(500)

\* ---------------------------------------------------------------- C5
\* C5: when the constructor fails with a validation error no engine entry
\* point has been invoked: nothing was allocated, opened or deleted.
C5_NoEngineCallOnValidationError ==
  pc = "error" =>
    /\ calls = << >>
    /\ c_alloc = "none"
    /\ c_ffio_ptr = None
    /\ init_args = None

C5_Witness ==
  /\ pc = "error"
  /\ error = "hw_device"
  /\ calls = << >>

\* ---------------------------------------------------------------- C7
\* the pts_trick the constructor starts from
GivenPtsTrick ==
  IF CallArgs.codec_params # None
    THEN CallArgs.codec_params[1].pts_trick.n
    ELSE CCodecParams.pts_trick.n

LiveUrl ==
  \/ StartsWith(CallArgs.target_url, << "r","t","m","p",":","/","/" >>)
  \/ StartsWith(CallArgs.target_url, << "r","t","s","p",":","/","/" >>)
  \/ StartsWith(CallArgs.target_url, << "s","r","t",":","/","/" >>)

\* C7: a pts_trick of -1 is resolved to Even for rtmp://, rtsp:// and srt://
\* URLs and to Increase for every other URL, any other value is kept, and
\* the engine's open call receives the resolved value, never the -1.
C7_PtsTrickResolved ==
  pc = "live" =>
    LET resolved == IF GivenPtsTrick # -1 THEN GivenPtsTrick
                    ELSE IF LiveUrl THEN FFIO_PTS_TRICK_EVEN
                    ELSE FFIO_PTS_TRICK_INCREASE
    IN /\ codec_params[1].pts_trick.n = resolved
       /\ init_args[1].codec_params.pts_trick.n = resolved
       /\ SubSeq(calls, 1, 2) = << "new", "init" >>
       /\ GivenPtsTrick = -1 => init_args[1].codec_params.pts_trick.n # -1

C7_Witness ==
  /\ pc = "live"
  /\ GivenPtsTrick = -1
  /\ CallArgs.target_url = << "s","r","t",":","/","/","x" >>
  /\ init_args[1].codec_params.pts_trick.n = FFIO_PTS_TRICK_EVEN

\* ---------------------------------------------------------------- C8
\* 'cuda:' followed by one or two digits and nothing else
CudaColonDigits(s) ==
  /\ Len(s) \in { 6, 7 }
  /\ SubSeq(s, 1, 5) = << "c","u","d","a",":" >>
  /\ \A i \in 6..Len(s) : s[i] \in Digits

\* C8 as stated: "cuda" in any letter case is stored as "cuda:0", 'cuda:'
\* with one or two digits is stored unchanged, every other non-empty string
\* fails the validation, the empty string keeps the platform default.
C8_HwDeviceResolved ==
  ( CtorCalled /\ error \notin { "mode", "codec_params" } ) =>
    LET d == CallArgs.hw_device
    IN IF d = << >>
         THEN pc = "live" /\ hw_device = DefaultHwDevice(platform)
       ELSE IF StrLower(d) = << "c","u","d","a" >>
         THEN pc = "live" /\ hw_device = << "c","u","d","a",":","0" >>
       ELSE IF CudaColonDigits(d)
         THEN pc = "live" /\ hw_device = d
       ELSE pc = "error" /\ error = "hw_device"

\* ---------------------------------------------------------------- C2
\* C2 as stated: when the engine reports one of the two open codes after
\* the open call the constructor treats the open as successful: the handle
\* is not deleted and width, height and framerate are the reported ones.
C2_OpenCodesAreSuccess ==
  ( pc = "live" /\ c_init.ffio_state \in { 1, 2 } ) =>
    /\ calls = << "new", "init" >>
    /\ c_alloc = "alive"
    /\ width = c_init.image_width
    /\ height = c_init.image_height
    /\ framerate = c_init.framerate

\* ---------------------------------------------------------------- C3
\* C3 as stated: after the engine reported a code that is not an open code
\* the constructor has returned a session, the delete entry point has been
\* invoked, width, height and framerate are 0 and the validity check is
\* false.
C3_FailedOpenIsInvalid ==
  ( pc = "live" /\ last_call = NoCall /\ c_init.ffio_state \notin { 1, 2 } ) =>
    /\ calls = << "new", "init", "delete" >>
    /\ width = 0
    /\ height = 0
    /\ framerate = 0
    /\ ~ Bool

\* ---------------------------------------------------------------- C4
FrameOps ==
  { "decode_one_frame", "decode_one_frame_to_shm", "encode_one_frame",
    "encode_one_frame_from_shm" }

\* C4: frame_seq_py is 0 after the construction, grows by exactly one on
\* every per-frame call the engine reports as succeeded, is unchanged by
\* every other per-frame call and is 0 after release_memory; the two encode
\* calls report success under the same engine outcome.
C4_FrameSeqPy ==
  [][ /\ ( pc = "new" /\ pc' = "live" ) => frame_seq_py' = 0
      /\ ( pc = "live" /\ pc' = "live" /\ last_call'.op \in FrameOps ) =>
           /\ frame_seq_py' = frame_seq_py
                + ( IF last_call'.called /\ last_call'.ok THEN 1 ELSE 0 )
           /\ last_call'.op \in { "encode_one_frame", "encode_one_frame_from_shm" }
                => ( Truthy(last_call'.ret) <=> ( last_call'.called /\ last_call'.ok ) )
      /\ pc' = "released" => frame_seq_py' = 0
    ]_vars

C4_Witness ==
  /\ pc = "live"
  /\ frame_seq_py = MaxFrames
  /\ last_call.op = "encode_one_frame_from_shm"
  /\ last_call.ok

\* ---------------------------------------------------------------- C6
\* C6: release_memory on an open session invokes finalize and then delete,
\* each exactly once, and leaves target_url, codec_params and the handle
\* None and width, height and frame_seq_py 0.
C6_ReleaseOpenSession ==
  [][ ( pc = "live" /\ c_alloc = "alive" /\ pc' # "live" ) =>
        /\ pc' = "released"
        /\ calls = << "new", "init" >>
        /\ calls' = << "new", "init", "finalize", "delete" >>
        /\ target_url' = None
        /\ codec_params' = None
        /\ c_ffio_ptr' = None
        /\ width' = 0
        /\ height' = 0
        /\ frame_seq_py' = 0
    ]_vars

C6_Witness ==
  /\ pc = "released"
  /\ c_init.ffio_state = 1
  /\ c_init.image_width > 0
  /\ calls = << "new", "init", "finalize", "delete" >>
  /\ last_call.op \in FrameOps
  /\ last_call.ok

\* ---------------------------------------------------------------- C9
\* C9 as stated: on an open session the accessors for the state code, the
\* width, the height, the framerate and the engine's frame counter return
\* what the engine object holds now.
C9_AccessorsReadThrough ==
  ( pc = "live" /\ c_alloc = "alive" ) =>
    /\ ffio_state = c_ffio.ffio_state
    /\ width = c_ffio.image_width
    /\ height = c_ffio.image_height
    /\ fps = c_ffio.framerate
    /\ frame_seq_c = c_ffio.frame_seq

\* ---------------------------------------------------------------- C10
\* C10 as stated: the constructor followed by one release_memory invokes
\* the delete entry point exactly once, and nothing goes through the handle
\* after its deletion.
C10_DeletedOnce ==
  ( pc \in { "released", "crashed" } /\ last_call = NoCall ) =>
    /\ DeleteCount = 1
    /\ ~ uaf

====
